---- MODULE Spec2Model ----
(***************************************************************************)
(* Humidity and temperature alarm (src/src/main.c).                        *)
(*                                                                         *)
(* Two execution contexts share the globals of main.c:                     *)
(*   - the foreground program main(): setup, configuration check, then the *)
(*     endless loop  sensor read -> checkStats -> isNewResultValid;        *)
(*   - the handler ISR(TIMER1_OVF_vect), which runs to completion once it  *)
(*     is entered (the AVR clears the global interrupt flag on entry, the  *)
(*     handler never sets it again) and may be entered between any two     *)
(*     foreground statements once sei() has been executed.                 *)
(*                                                                         *)
(* pc is the position of main(), isrpc the position of the handler         *)
(* ("idle" = not executing).  The foreground is cut at every store to a    *)
(* global the handler reads; isNewResultValid touches only globals the     *)
(* handler never reads and is one step.                                    *)
(***************************************************************************)
EXTENDS Integers, FiniteSets, Sequences, TLC

(***************************************************************************)
(* Bounds of the model.                                                    *)
(***************************************************************************)
MaxSamples == 3      \* successful sensor reads in one run
MaxTicks == 6        \* timer overflows in one run

(***************************************************************************)
(* Program constants.                                                      *)
(***************************************************************************)
NULL == 0                  \* "Leave 'NULL' for no limit": the sentinel compares equal to 0
MAX_DELTA == 5             \* isNewResultValid: largest plausible change between measurements
TEMP_MIN_SEED == 99        \* initial temperature_min
HUM_MIN_SEED == 99         \* initial humidity_min
LAST_STEP == 4             \* display_step > 4 resets the step-through
TONE_MS == 2000            \* warningSounds(2000)

Int8 == -128 .. 127

\* Builds of the firmware: the four #define lines of the USER CONFIGURATION
\* block.  The first is the build of the repository; the others are the
\* configurations the specification talks about (min above max, a bound left
\* NULL, no bound at all).
Limits(tmin, tmax, hmin, hmax) ==
    [TEMP_LIMIT_MIN |-> tmin, TEMP_LIMIT_MAX |-> tmax,
     HUM_LIMIT_MIN |-> hmin, HUM_LIMIT_MAX |-> hmax]

Builds ==
    { Limits(20, 30, 20, 50),
      Limits(30, 20, 20, 50),
      Limits(20, NULL, 20, 50),
      Limits(NULL, NULL, NULL, NULL) }

\* Samples the sensor driver can deliver, as <<temperature, humidity>> (both
\* int8_t): every temperature reading at a mid-range humidity, every humidity
\* reading at a mid-range temperature, and one sample with both out of range.
\* The readings sit on both sides of each limit of the repository's build
\* (19 | 20, 30 | 31, 50 | 51), differ by exactly 5 and by exactly 6
\* (20 and 19 against 25), and include a temperature below zero.
TempReadings == {-1, 19, 20, 25, 30, 31}
HumReadings == {19, 20, 25, 50, 51}
Readings ==
    {<<t, 25>> : t \in TempReadings} \cup {<<25, h>> : h \in HumReadings}
        \cup {<<31, 51>>}

VARIABLES
    limits,                 \* the build's TEMP_LIMIT_MIN .. HUM_LIMIT_MAX
    temp_exceeded_dir, hum_exceeded_dir,
    current_animation,
    last_animation_done,
    test_frequency,
    display_step,
    temperature_max, temperature_min, temperature_previous,
    humidity_max, humidity_min, humidity_previous,
    temperature, humidity,
    lcd,                    \* what the LCD shows: the pane last written and its two numbers
    tone,                   \* milliseconds of warning sound played by the last handler run
    matrix,                 \* bitmap last animated on the LED matrix
    pc,                     \* position of main()
    isrpc,                  \* position of ISR(TIMER1_OVF_vect)
    samples,                \* successful sensor reads so far
    ticks                   \* timer overflows serviced so far

vars == << limits, temp_exceeded_dir, hum_exceeded_dir, current_animation,
           last_animation_done, test_frequency, display_step,
           temperature_max, temperature_min, temperature_previous,
           humidity_max, humidity_min, humidity_previous,
           temperature, humidity, lcd, tone, matrix, pc, isrpc, samples, ticks >>

validatorVars == << temperature_previous, humidity_previous, test_frequency >>
extremeVars == << temperature_max, temperature_min, humidity_max, humidity_min >>
dirVars == << temp_exceeded_dir, hum_exceeded_dir >>
sampleVars == << temperature, humidity >>
isrVars == << display_step, last_animation_done, matrix, isrpc, ticks >>
displayVars == << lcd, tone >>

Pane(name, first, second) == [pane |-> name, v1 |-> first, v2 |-> second]

Init ==
    /\ limits \in Builds
    /\ temp_exceeded_dir = 0
    /\ hum_exceeded_dir = 0
    /\ current_animation = 1
    /\ last_animation_done = 1
    /\ test_frequency = 0
    /\ display_step = 0
    /\ temperature_max = 0
    /\ temperature_min = TEMP_MIN_SEED
    /\ temperature_previous = 0
    /\ humidity_max = 0
    /\ humidity_min = HUM_MIN_SEED
    /\ humidity_previous = 0
    /\ temperature = 0
    /\ humidity = 0
    /\ lcd = Pane("Blank", 0, 0)
    /\ tone = 0
    /\ matrix = "CLEAR"
    /\ pc = "setup"
    /\ isrpc = "idle"
    /\ samples = 0
    /\ ticks = 0

(***************************************************************************)
(* Pure parts of the code.                                                 *)
(***************************************************************************)

\* Variant of isNewResultValid: the delta tests use >= and <=, so a change of
\* exactly 5 is rejected.
isNewResultValid_exclusive(t, h, t_prev, h_prev, freq) ==
    IF freq < 1
    THEN [ret |-> 1, temperature_previous |-> t, humidity_previous |-> h,
          test_frequency |-> freq + 1]
    ELSE IF (t - t_prev) <= -MAX_DELTA \/ (t - t_prev) >= MAX_DELTA
    THEN [ret |-> 0, temperature_previous |-> t_prev, humidity_previous |-> h_prev,
          test_frequency |-> freq]
    ELSE IF (h - h_prev) <= -MAX_DELTA \/ (h - h_prev) >= MAX_DELTA
    THEN [ret |-> 0, temperature_previous |-> t_prev, humidity_previous |-> h_prev,
          test_frequency |-> freq]
    ELSE [ret |-> 1, temperature_previous |-> t, humidity_previous |-> h,
          test_frequency |-> freq]

\* Variant of isNewResultValid: the bootstrap branch forgets test_frequency += 1,
\* so every call is taken for the first.
isNewResultValid_uncounted(t, h, t_prev, h_prev, freq) ==
    IF freq < 1
    THEN [ret |-> 1, temperature_previous |-> t, humidity_previous |-> h,
          test_frequency |-> freq]
    ELSE IF (t - t_prev) < -MAX_DELTA \/ (t - t_prev) > MAX_DELTA
    THEN [ret |-> 0, temperature_previous |-> t_prev, humidity_previous |-> h_prev,
          test_frequency |-> freq]
    ELSE IF (h - h_prev) < -MAX_DELTA \/ (h - h_prev) > MAX_DELTA
    THEN [ret |-> 0, temperature_previous |-> t_prev, humidity_previous |-> h_prev,
          test_frequency |-> freq]
    ELSE [ret |-> 1, temperature_previous |-> t, humidity_previous |-> h,
          test_frequency |-> freq]

\* Variant of isNewResultValid: the temperature baseline is stored as soon as
\* the temperature test passes, before the humidity test.
isNewResultValid_early_store(t, h, t_prev, h_prev, freq) ==
    IF freq < 1
    THEN [ret |-> 1, temperature_previous |-> t, humidity_previous |-> h,
          test_frequency |-> freq + 1]
    ELSE IF (t - t_prev) < -MAX_DELTA \/ (t - t_prev) > MAX_DELTA
    THEN [ret |-> 0, temperature_previous |-> t_prev, humidity_previous |-> h_prev,
          test_frequency |-> freq]
    ELSE IF (h - h_prev) < -MAX_DELTA \/ (h - h_prev) > MAX_DELTA
    THEN [ret |-> 0, temperature_previous |-> t, humidity_previous |-> h_prev,
          test_frequency |-> freq]
    ELSE [ret |-> 1, temperature_previous |-> t, humidity_previous |-> h,
          test_frequency |-> freq]

\* Variant of isNewResultValid: the baseline follows every measurement, also
\* the rejected ones.
isNewResultValid_tracking(t, h, t_prev, h_prev, freq) ==
    IF freq < 1
    THEN [ret |-> 1, temperature_previous |-> t, humidity_previous |-> h,
          test_frequency |-> freq + 1]
    ELSE IF (t - t_prev) < -MAX_DELTA \/ (t - t_prev) > MAX_DELTA
    THEN [ret |-> 0, temperature_previous |-> t, humidity_previous |-> h,
          test_frequency |-> freq]
    ELSE IF (h - h_prev) < -MAX_DELTA \/ (h - h_prev) > MAX_DELTA
    THEN [ret |-> 0, temperature_previous |-> t, humidity_previous |-> h,
          test_frequency |-> freq]
    ELSE [ret |-> 1, temperature_previous |-> t, humidity_previous |-> h,
          test_frequency |-> freq]

\* isNewResultValid(), lines 422-453, as a function of the globals it reads.
\* ret is the value returned; the other fields are the globals it leaves.
isNewResultValid(t, h, t_prev, h_prev, freq) ==
    IF freq < 1
    THEN [ret |-> 1, temperature_previous |-> t, humidity_previous |-> h,
          test_frequency |-> freq + 1]
    ELSE IF (t - t_prev) < -MAX_DELTA \/ (t - t_prev) > MAX_DELTA
    THEN [ret |-> 0, temperature_previous |-> t_prev, humidity_previous |-> h_prev,
          test_frequency |-> freq]
    ELSE IF (h - h_prev) < -MAX_DELTA \/ (h - h_prev) > MAX_DELTA
    THEN [ret |-> 0, temperature_previous |-> t_prev, humidity_previous |-> h_prev,
          test_frequency |-> freq]
    ELSE [ret |-> 1, temperature_previous |-> t, humidity_previous |-> h,
          test_frequency |-> freq]

\* Variant of exceededDir: the comparisons are <= instead of <.
exceededDir_inclusive(limit_min, limit_max, value) ==
    IF limit_max # NULL /\ limit_max <= value THEN 1
    ELSE IF limit_min # NULL /\ value <= limit_min THEN -1
    ELSE 0

\* The if / else if / else chain of checkStats that classifies one attribute
\* against its pair of limits (lines 366-376 for temperature, 379-389 for
\* humidity): 1 = over the upper limit, -1 = under the lower limit, 0 = nominal.
exceededDir(limit_min, limit_max, value) ==
    IF limit_max # NULL /\ limit_max < value THEN 1
    ELSE IF limit_min # NULL /\ value < limit_min THEN -1
    ELSE 0

\* Variant of configError: only the humidity pair is tested.
configError_humidity_only(lim) ==
    lim.HUM_LIMIT_MIN > lim.HUM_LIMIT_MAX

\* The condition of the configuration check of main(), line 488.
configError(lim) ==
    \/ lim.TEMP_LIMIT_MIN > lim.TEMP_LIMIT_MAX
    \/ lim.HUM_LIMIT_MIN > lim.HUM_LIMIT_MAX

(***************************************************************************)
(* main(): the foreground program.  It runs only while the handler is not  *)
(* executing.                                                              *)
(***************************************************************************)
Foreground(label) == pc = label /\ isrpc = "idle"

\* Lines 458-483: LCD, LED driver, pins, timer, and sei().
\* lcd_clrscr() leaves a blank display, the loop of line 472 a cleared matrix.
main_setup ==
    /\ Foreground("setup")
    /\ lcd' = Pane("Blank", 0, 0)
    /\ matrix' = "CLEAR"
    /\ pc' = "config"
    /\ UNCHANGED << limits, dirVars, current_animation, validatorVars, extremeVars,
                    sampleVars, tone, display_step, last_animation_done, isrpc,
                    samples, ticks >>

\* Line 488: the configuration check selects the halting branch or the loop.
main_config ==
    /\ Foreground("config")
    /\ pc' = IF configError(limits) THEN "config_pane" ELSE "read"
    /\ UNCHANGED << limits, dirVars, current_animation, validatorVars, extremeVars,
                    sampleVars, displayVars, isrVars, samples >>

\* Lines 489-491: the configuration-error pane.
main_config_pane ==
    /\ Foreground("config_pane")
    /\ lcd' = Pane("ConfigError", 0, 0)
    /\ pc' = "config_animation"
    /\ UNCHANGED << limits, dirVars, current_animation, validatorVars, extremeVars,
                    sampleVars, tone, isrVars, samples >>

\* Line 492, then the empty loop of line 493 ("halt" has no successor in main).
main_config_animation ==
    /\ Foreground("config_animation")
    /\ current_animation' = 1
    /\ pc' = "halt"
    /\ UNCHANGED << limits, dirVars, validatorVars, extremeVars,
                    sampleVars, displayVars, isrVars, samples >>

\* Line 497, sensor delivers a sample: dht_gettemperaturehumidity stores it in
\* the globals temperature and humidity and does not return -1.
main_read_ok ==
    /\ Foreground("read")
    /\ samples < MaxSamples
    /\ \E reading \in Readings :
          /\ temperature' = reading[1]
          /\ humidity' = reading[2]
    /\ samples' = samples + 1
    /\ pc' = "validate"
    /\ UNCHANGED << limits, dirVars, current_animation, validatorVars, extremeVars,
                    displayVars, isrVars >>

\* Line 497, the read fails: dht_gettemperaturehumidity returns -1.  The
\* driver (dht.h) stores a sample only when it has a complete, checked
\* reading, so a failed read leaves temperature and humidity as they were.
main_read_failed ==
    /\ Foreground("read")
    /\ pc' = "error_pane"
    /\ UNCHANGED << limits, dirVars, current_animation, validatorVars, extremeVars,
                    sampleVars, displayVars, isrVars, samples >>

\* Lines 500-502: the input-error pane.
main_error_pane ==
    /\ Foreground("error_pane")
    /\ lcd' = Pane("InputError", 0, 0)
    /\ pc' = "error_animation"
    /\ UNCHANGED << limits, dirVars, current_animation, validatorVars, extremeVars,
                    sampleVars, tone, isrVars, samples >>

\* Variant of main_error_animation: the store of line 503 is missing.
main_error_animation_missing ==
    /\ Foreground("error_animation")
    /\ pc' = "read"
    /\ UNCHANGED << limits, dirVars, current_animation, validatorVars, extremeVars,
                    sampleVars, displayVars, isrVars, samples >>

\* Line 503.
main_error_animation ==
    /\ Foreground("error_animation")
    /\ current_animation' = 1
    /\ pc' = "read"
    /\ UNCHANGED << limits, dirVars, validatorVars, extremeVars,
                    sampleVars, displayVars, isrVars, samples >>

(***************************************************************************)
(* checkStats(temperature, humidity), called from line 498.  Its two       *)
(* parameters are copies of the globals of the same names, made at the     *)
(* call; isNewResultValid reads the globals.  Nothing writes the globals   *)
(* before checkStats returns, so copies and globals agree throughout.      *)
(***************************************************************************)

\* Line 363: the call of isNewResultValid() and the test of its result.
checkStats_validate ==
    /\ Foreground("validate")
    /\ LET r == isNewResultValid(temperature, humidity, temperature_previous,
                                 humidity_previous, test_frequency)
       IN  /\ temperature_previous' = r.temperature_previous
           /\ humidity_previous' = r.humidity_previous
           /\ test_frequency' = r.test_frequency
           /\ pc' = IF r.ret = 1 THEN "temp_dir" ELSE "read"
    /\ UNCHANGED << limits, dirVars, current_animation, extremeVars,
                    sampleVars, displayVars, isrVars, samples >>

\* Lines 366-376, the store to temp_exceeded_dir (lines 367, 371, 375).
checkStats_temp_dir ==
    /\ Foreground("temp_dir")
    /\ temp_exceeded_dir' =
          exceededDir(limits.TEMP_LIMIT_MIN, limits.TEMP_LIMIT_MAX, temperature)
    /\ pc' = IF temp_exceeded_dir' # 0 THEN "temp_animation" ELSE "hum_dir"
    /\ UNCHANGED << limits, hum_exceeded_dir, current_animation, validatorVars,
                    extremeVars, sampleVars, displayVars, isrVars, samples >>

\* Lines 368 and 372: the store to current_animation that follows a
\* non-nominal temperature direction.
checkStats_temp_animation ==
    /\ Foreground("temp_animation")
    /\ current_animation' = 1
    /\ pc' = "hum_dir"
    /\ UNCHANGED << limits, dirVars, validatorVars, extremeVars,
                    sampleVars, displayVars, isrVars, samples >>

\* Lines 379-389, the store to hum_exceeded_dir (lines 380, 384, 388).
checkStats_hum_dir ==
    /\ Foreground("hum_dir")
    /\ hum_exceeded_dir' =
          exceededDir(limits.HUM_LIMIT_MIN, limits.HUM_LIMIT_MAX, humidity)
    /\ pc' = IF hum_exceeded_dir' # 0 THEN "hum_animation" ELSE "both_nominal"
    /\ UNCHANGED << limits, temp_exceeded_dir, current_animation, validatorVars,
                    extremeVars, sampleVars, displayVars, isrVars, samples >>

\* Lines 381 and 385.
checkStats_hum_animation ==
    /\ Foreground("hum_animation")
    /\ current_animation' = 1
    /\ pc' = "both_nominal"
    /\ UNCHANGED << limits, dirVars, validatorVars, extremeVars,
                    sampleVars, displayVars, isrVars, samples >>

\* Variant of checkStats_both_nominal: the test joins the two directions with
\* || instead of &&.
checkStats_both_nominal_either ==
    /\ Foreground("both_nominal")
    /\ current_animation' =
          IF hum_exceeded_dir = 0 \/ temp_exceeded_dir = 0 THEN 0 ELSE current_animation
    /\ pc' = "temp_max"
    /\ UNCHANGED << limits, dirVars, validatorVars, extremeVars,
                    sampleVars, displayVars, isrVars, samples >>

\* Lines 392-394: back to the check mark only if neither limit is exceeded.
checkStats_both_nominal ==
    /\ Foreground("both_nominal")
    /\ current_animation' =
          IF hum_exceeded_dir = 0 /\ temp_exceeded_dir = 0 THEN 0 ELSE current_animation
    /\ pc' = "temp_max"
    /\ UNCHANGED << limits, dirVars, validatorVars, extremeVars,
                    sampleVars, displayVars, isrVars, samples >>

\* Variant of checkStats_temp_max: the maximum follows the sample only while
\* the temperature is within its limits.
checkStats_temp_max_nominal_only ==
    /\ Foreground("temp_max")
    /\ temperature_max' =
          IF temperature_max < temperature /\ temp_exceeded_dir = 0
          THEN temperature ELSE temperature_max
    /\ pc' = "temp_min"
    /\ UNCHANGED << limits, dirVars, current_animation, validatorVars,
                    temperature_min, humidity_max, humidity_min,
                    sampleVars, displayVars, isrVars, samples >>

\* Lines 399-401.
checkStats_temp_max ==
    /\ Foreground("temp_max")
    /\ temperature_max' =
          IF temperature_max < temperature THEN temperature ELSE temperature_max
    /\ pc' = "temp_min"
    /\ UNCHANGED << limits, dirVars, current_animation, validatorVars,
                    temperature_min, humidity_max, humidity_min,
                    sampleVars, displayVars, isrVars, samples >>

\* Lines 403-405.
checkStats_temp_min ==
    /\ Foreground("temp_min")
    /\ temperature_min' =
          IF temperature_min > temperature THEN temperature ELSE temperature_min
    /\ pc' = "hum_max"
    /\ UNCHANGED << limits, dirVars, current_animation, validatorVars,
                    temperature_max, humidity_max, humidity_min,
                    sampleVars, displayVars, isrVars, samples >>

\* Lines 407-409.
checkStats_hum_max ==
    /\ Foreground("hum_max")
    /\ humidity_max' = IF humidity_max < humidity THEN humidity ELSE humidity_max
    /\ pc' = "hum_min"
    /\ UNCHANGED << limits, dirVars, current_animation, validatorVars,
                    temperature_max, temperature_min, humidity_min,
                    sampleVars, displayVars, isrVars, samples >>

\* Lines 411-413, and the return to the loop of main().
checkStats_hum_min ==
    /\ Foreground("hum_min")
    /\ humidity_min' = IF humidity_min > humidity THEN humidity ELSE humidity_min
    /\ pc' = "read"
    /\ UNCHANGED << limits, dirVars, current_animation, validatorVars,
                    temperature_max, temperature_min, humidity_max,
                    sampleVars, displayVars, isrVars, samples >>

(***************************************************************************)
(* ISR(TIMER1_OVF_vect): the tick handler.                                 *)
(***************************************************************************)

\* printTempHum_Current, lines 170-186: line 1 shows the temperature, line 2
\* the humidity.
printTempHum_Current(t, h) == Pane("Current", t, h)

\* printTemp_History, lines 194-210: v1 is the number shown after "Max",
\* v2 the number shown after "Min".
printTemp_History(t_max, t_min) == Pane("TempHistory", t_max, t_min)

\* printHum_History, lines 217-233: v1 is the number shown after "Max",
\* v2 the number shown after "Min".
printHum_History(h_max, h_min) == Pane("HumHistory", h_max, h_min)

\* printWarning, lines 310-352: v1 is the direction announced (1 "Over",
\* -1 "Under"), v2 the limit printed after it.
printWarning(tempOrHum, exceeded_dir, lim) ==
    IF tempOrHum = 0
    THEN Pane("TempAlarm", exceeded_dir,
              IF exceeded_dir = 1 THEN lim.TEMP_LIMIT_MAX ELSE lim.TEMP_LIMIT_MIN)
    ELSE Pane("HumAlarm", exceeded_dir,
              IF exceeded_dir = 1 THEN lim.HUM_LIMIT_MAX ELSE lim.HUM_LIMIT_MIN)

\* Variant of tickPane: the step-0 test forgets the direction -1.
tickPane_over_only(step, g) ==
    IF step = 0 /\ g.temp_exceeded_dir = 1
    THEN printWarning(0, g.temp_exceeded_dir, g.limits)
    ELSE IF step = 1 /\ (g.hum_exceeded_dir = 1 \/ g.hum_exceeded_dir = -1)
    THEN printWarning(1, g.hum_exceeded_dir, g.limits)
    ELSE IF step <= 2
    THEN printTempHum_Current(g.temperature, g.humidity)
    ELSE IF step = 3
    THEN printTemp_History(g.temperature_max, g.temperature_min)
    ELSE IF step = 4
    THEN printHum_History(g.humidity, g.humidity_min)
    ELSE g.lcd

\* The if / else if chain of the handler, lines 120-138: the pane it writes,
\* from the step and the globals read at entry.  g is the record of globals.
tickPane(step, g) ==
    IF step = 0 /\ (g.temp_exceeded_dir = 1 \/ g.temp_exceeded_dir = -1)
    THEN printWarning(0, g.temp_exceeded_dir, g.limits)
    ELSE IF step = 1 /\ (g.hum_exceeded_dir = 1 \/ g.hum_exceeded_dir = -1)
    THEN printWarning(1, g.hum_exceeded_dir, g.limits)
    ELSE IF step <= 2
    THEN printTempHum_Current(g.temperature, g.humidity)
    ELSE IF step = 3
    THEN printTemp_History(g.temperature_max, g.temperature_min)
    ELSE IF step = 4
    THEN printHum_History(g.humidity, g.humidity_min)
    ELSE g.lcd

\* The globals the handler reads.
Globals ==
    [limits |-> limits,
     temp_exceeded_dir |-> temp_exceeded_dir, hum_exceeded_dir |-> hum_exceeded_dir,
     temperature |-> temperature, humidity |-> humidity,
     temperature_max |-> temperature_max, temperature_min |-> temperature_min,
     humidity_max |-> humidity_max, humidity_min |-> humidity_min,
     lcd |-> lcd]

\* Variant of animationFor: the selector values are taken one too high.
animationFor_shifted(selector) ==
    IF selector = 1 THEN "LEDMATRIX_CHECK"
    ELSE IF selector = 2 THEN "LEDMATRIX_WARNING"
    ELSE "LEDMATRIX_HEART"

\* Lines 151-159: the bitmap played for a value of current_animation.
animationFor(selector) ==
    IF selector = 0 THEN "LEDMATRIX_CHECK"
    ELSE IF selector = 1 THEN "LEDMATRIX_WARNING"
    ELSE "LEDMATRIX_HEART"

\* Entry of the handler and lines 120-138: the pane, with the warning sound
\* of printWarning (line 351).  The timer interrupts only after sei().
TIMER1_OVF_pane ==
    /\ isrpc = "idle"
    /\ pc # "setup"
    /\ ticks < MaxTicks
    /\ ticks' = ticks + 1
    /\ lcd' = tickPane(display_step, Globals)
    /\ tone' = IF lcd'.pane \in {"TempAlarm", "HumAlarm"} THEN TONE_MS ELSE 0
    /\ isrpc' = "increment"
    /\ UNCHANGED << limits, dirVars, current_animation, validatorVars, extremeVars,
                    sampleVars, display_step, last_animation_done, matrix, pc, samples >>

\* Line 140.
TIMER1_OVF_increment ==
    /\ isrpc = "increment"
    /\ display_step' = display_step + 1
    /\ isrpc' = "wrap"
    /\ UNCHANGED << limits, dirVars, current_animation, validatorVars, extremeVars,
                    sampleVars, displayVars, last_animation_done, matrix, pc,
                    samples, ticks >>

\* Variant of TIMER1_OVF_wrap: the reset tests display_step >= 4.
TIMER1_OVF_wrap_early ==
    /\ isrpc = "wrap"
    /\ display_step' = IF display_step >= LAST_STEP THEN 0 ELSE display_step
    /\ isrpc' = "animation"
    /\ UNCHANGED << limits, dirVars, current_animation, validatorVars, extremeVars,
                    sampleVars, displayVars, last_animation_done, matrix, pc,
                    samples, ticks >>

\* Lines 142-144.
TIMER1_OVF_wrap ==
    /\ isrpc = "wrap"
    /\ display_step' = IF display_step > LAST_STEP THEN 0 ELSE display_step
    /\ isrpc' = "animation"
    /\ UNCHANGED << limits, dirVars, current_animation, validatorVars, extremeVars,
                    sampleVars, displayVars, last_animation_done, matrix, pc,
                    samples, ticks >>

\* Lines 147-159: the guard, the flag set busy and the blocking animation.
TIMER1_OVF_animation ==
    /\ isrpc = "animation"
    /\ IF last_animation_done = 1
       THEN /\ last_animation_done' = 0
            /\ matrix' = animationFor(current_animation)
            /\ isrpc' = "animation_done"
       ELSE /\ UNCHANGED << last_animation_done, matrix >>
            /\ isrpc' = "idle"
    /\ UNCHANGED << limits, dirVars, current_animation, validatorVars, extremeVars,
                    sampleVars, displayVars, display_step, pc, samples, ticks >>

\* Variant of TIMER1_OVF_animation_done: the store of line 161 is missing, the
\* flag stays busy.
TIMER1_OVF_animation_done_busy ==
    /\ isrpc = "animation_done"
    /\ isrpc' = "idle"
    /\ UNCHANGED << limits, dirVars, current_animation, validatorVars, extremeVars,
                    sampleVars, displayVars, display_step, last_animation_done,
                    matrix, pc, samples, ticks >>

\* Line 161 and the return from the handler.
TIMER1_OVF_animation_done ==
    /\ isrpc = "animation_done"
    /\ last_animation_done' = 1
    /\ isrpc' = "idle"
    /\ UNCHANGED << limits, dirVars, current_animation, validatorVars, extremeVars,
                    sampleVars, displayVars, display_step, matrix, pc, samples, ticks >>

(***************************************************************************)
(* The program.                                                            *)
(***************************************************************************)
Next ==
    \/ main_setup
    \/ main_config
    \/ main_config_pane
    \/ main_config_animation
    \/ main_read_ok
    \/ main_read_failed
    \/ main_error_pane
    \/ main_error_animation
    \/ checkStats_validate
    \/ checkStats_temp_dir
    \/ checkStats_temp_animation
    \/ checkStats_hum_dir
    \/ checkStats_hum_animation
    \/ checkStats_both_nominal
    \/ checkStats_temp_max
    \/ checkStats_temp_min
    \/ checkStats_hum_max
    \/ checkStats_hum_min
    \/ TIMER1_OVF_pane
    \/ TIMER1_OVF_increment
    \/ TIMER1_OVF_wrap
    \/ TIMER1_OVF_animation
    \/ TIMER1_OVF_animation_done

Spec == Init /\ [][Next]_vars

TypeOK ==
    /\ limits \in Builds
    /\ temp_exceeded_dir \in {-1, 0, 1}
    /\ hum_exceeded_dir \in {-1, 0, 1}
    /\ current_animation \in Int8
    /\ last_animation_done \in {0, 1}
    /\ test_frequency \in {0, 1}
    /\ display_step \in 0 .. LAST_STEP + 1
    /\ {temperature_max, temperature_min, temperature_previous, temperature} \subseteq Int8
    /\ {humidity_max, humidity_min, humidity_previous, humidity} \subseteq Int8
    /\ samples \in 0 .. MaxSamples
    /\ ticks \in 0 .. MaxTicks

(***************************************************************************)
(* Properties.                                                             *)
(***************************************************************************)
TickEntry == isrpc = "idle" /\ isrpc' = "increment"
ValidatorCall == pc = "validate" /\ pc' # "validate"
Accepted == pc = "validate" /\ pc' = "temp_dir"
Rejected == pc = "validate" /\ pc' = "read"
AfterDirections == {"both_nominal", "temp_max", "temp_min", "hum_max", "hum_min"}
AfterSelector == {"temp_max", "temp_min", "hum_max", "hum_min"}
Abs(n) == IF n < 0 THEN -n ELSE n

\* C1: the pane a tick writes at steps 0, 1 and 2 is decided by the step and
\* the two directions as they are at tick entry: step 0 gives the temperature
\* alarm iff the temperature direction is 1 or -1, else the current values;
\* step 1 gives the humidity alarm iff the humidity direction is 1 or -1, else
\* the current values; step 2 gives the current values whatever the directions.
C1_PaneSelection ==
    [][TickEntry =>
         /\ display_step = 0 =>
               lcd'.pane = IF temp_exceeded_dir \in {1, -1} THEN "TempAlarm" ELSE "Current"
         /\ display_step = 1 =>
               lcd'.pane = IF hum_exceeded_dir \in {1, -1} THEN "HumAlarm" ELSE "Current"
         /\ display_step = 2 => lcd'.pane = "Current"]_vars

\* C1 witness: a tick entered at step 0 with the temperature over its limit
\* has written the temperature alarm pane.
C1_Witness ==
    /\ isrpc = "increment"
    /\ display_step = 0
    /\ temp_exceeded_dir = 1
    /\ lcd.pane = "TempAlarm"

\* C2: display_step starts at 0 and each tick moves it to (previous + 1) mod 5,
\* so after n ticks it is n mod 5, whatever the directions, the selector and
\* the samples are; outside the handler it is always one of 0..4.
C2_StepSequence ==
    /\ ticks = 0 => display_step = 0
    /\ isrpc = "idle" => display_step = ticks % 5
    /\ isrpc = "idle" => display_step \in 0 .. 4

\* C2 witness: six ticks have completed, the step has wrapped from 4 to 0 and
\* moved on to 1, with the temperature alarm up.
C2_Witness ==
    /\ isrpc = "idle"
    /\ ticks = 6
    /\ display_step = 1
    /\ temp_exceeded_dir = 1

\* C3: on every validator call after the first, the new sample is accepted iff
\* it differs from the baseline by at most 5 in temperature and by at most 5 in
\* humidity; an accepted sample becomes the baseline, a rejected one leaves the
\* baseline alone, and nothing but an acceptance ever moves the baseline (so
\* the baseline is the most recently accepted sample).
C3_DeltaBound ==
    [][/\ (ValidatorCall /\ samples > 1) =>
            LET within == /\ Abs(temperature - temperature_previous) <= 5
                          /\ Abs(humidity - humidity_previous) <= 5
            IN  /\ within => Accepted
                /\ ~within => Rejected
                /\ within => /\ temperature_previous' = temperature
                             /\ humidity_previous' = humidity
       /\ << temperature_previous, humidity_previous >>'
             # << temperature_previous, humidity_previous >> => Accepted]_vars

\* C3 witness: a later sample whose temperature is 6 above the baseline, with
\* the humidity equal to the baseline's, has been rejected.
C3_Witness ==
    /\ pc = "read"
    /\ samples > 1
    /\ temperature - temperature_previous = 6
    /\ humidity = humidity_previous

\* C4: the first validator call accepts its sample whatever its value and makes
\* it the baseline; every later call rejects a sample that is out of range of
\* the baseline.
C4_Bootstrap ==
    [][/\ (ValidatorCall /\ samples = 1) =>
            /\ Accepted
            /\ temperature_previous' = temperature
            /\ humidity_previous' = humidity
       /\ (ValidatorCall /\ samples > 1
             /\ (\/ Abs(temperature - temperature_previous) > 5
                 \/ Abs(humidity - humidity_previous) > 5)) => Rejected]_vars

\* C4 witness: the first sample, 31 away from the initial baseline of 0, has
\* been accepted and recorded.
C4_Witness ==
    /\ pc = "temp_dir"
    /\ samples = 1
    /\ temperature = 31
    /\ temperature_previous = 31
    /\ humidity_previous = humidity

\* C5: a rejected sample leaves the four extremes, both directions and the
\* validator's memory (baseline temperature, baseline humidity, bootstrap
\* count) as they were.
C5_RejectionInert ==
    [][Rejected => UNCHANGED << extremeVars, dirVars, validatorVars >>]_vars

\* C5 witness: a sample has been rejected whose temperature delta is in range
\* while only its humidity delta is out of range.
C5_Witness ==
    /\ pc = "read"
    /\ samples > 1
    /\ temperature # temperature_previous
    /\ Abs(temperature - temperature_previous) <= 5
    /\ Abs(humidity - humidity_previous) > 5

\* C6: a rejected sample is not shown: whenever a tick that is entered between
\* two foreground iterations writes the current-values pane, the numbers it
\* shows are those of the last accepted sample.
C6_RejectedNotShown ==
    [][(TickEntry /\ pc = "read" /\ samples > 0 /\ lcd'.pane = "Current") =>
          /\ lcd'.v1 = temperature_previous
          /\ lcd'.v2 = humidity_previous]_vars

\* C7: once checkStats has classified an accepted sample, each direction is
\* 1 iff the upper limit is configured and the value is above it, otherwise -1
\* iff the lower limit is configured and the value is below it, otherwise 0.
\* The comparisons are strict (limits 20 and 30: 19 is under, 20 and 30 are
\* nominal, 31 is over), and with the upper limit unset the direction is
\* never 1.
C7_Direction ==
    LET Over(value, upper) == upper # NULL /\ value > upper
        Under(value, lower) == lower # NULL /\ value < lower
        Classified(dir, value, lower, upper) ==
            /\ dir = 1 <=> Over(value, upper)
            /\ dir = -1 <=> (~Over(value, upper) /\ Under(value, lower))
            /\ dir = 0 <=> (~Over(value, upper) /\ ~Under(value, lower))
    IN  /\ pc \in AfterDirections =>
              /\ Classified(temp_exceeded_dir, temperature,
                            limits.TEMP_LIMIT_MIN, limits.TEMP_LIMIT_MAX)
              /\ Classified(hum_exceeded_dir, humidity,
                            limits.HUM_LIMIT_MIN, limits.HUM_LIMIT_MAX)
        /\ (pc \in AfterDirections /\ limits.TEMP_LIMIT_MIN = 20
              /\ limits.TEMP_LIMIT_MAX = 30) =>
              /\ temperature = 19 => temp_exceeded_dir = -1
              /\ temperature \in {20, 30} => temp_exceeded_dir = 0
              /\ temperature = 31 => temp_exceeded_dir = 1
        /\ limits.TEMP_LIMIT_MAX = NULL => temp_exceeded_dir # 1
        /\ limits.HUM_LIMIT_MAX = NULL => hum_exceeded_dir # 1

\* C7 witness: with limits 20 and 30 an accepted temperature of 31 has been
\* classified over, together with a humidity of 51 over its limit of 50.
C7_Witness ==
    /\ pc = "both_nominal"
    /\ limits.TEMP_LIMIT_MIN = 20
    /\ limits.TEMP_LIMIT_MAX = 30
    /\ temperature = 31
    /\ temp_exceeded_dir = 1
    /\ humidity = 51
    /\ hum_exceeded_dir = 1

\* C8: once checkStats has chosen the animation for an accepted sample, the
\* selector is 1 (warning) iff at least one direction is not nominal and 0
\* (check) iff both are nominal, whatever it was before the call.
C8_AnimationSelection ==
    pc \in AfterSelector =>
        /\ current_animation = 1 <=> (temp_exceeded_dir # 0 \/ hum_exceeded_dir # 0)
        /\ current_animation = 0 <=> (temp_exceeded_dir = 0 /\ hum_exceeded_dir = 0)

\* C8 witness: a sample with nominal temperature and humidity over the limit
\* has been processed and the selector is warning.
C8_Witness ==
    /\ pc = "temp_max"
    /\ temp_exceeded_dir = 0
    /\ hum_exceeded_dir = 1
    /\ current_animation = 1

\* C9: the two maxima never decrease and the two minima never increase; the
\* extremes change only while checkStats processes an accepted sample; and when
\* that processing ends the extremes enclose the sample, whether or not the
\* sample is within the configured limits.
C9_ExtremesMonotone ==
    [][/\ temperature_max' >= temperature_max
       /\ humidity_max' >= humidity_max
       /\ temperature_min' <= temperature_min
       /\ humidity_min' <= humidity_min
       /\ extremeVars' # extremeVars => (pc \in AfterSelector /\ isrpc = "idle")
       /\ (pc = "hum_min" /\ pc' = "read") =>
             /\ temperature_min' <= temperature /\ temperature <= temperature_max'
             /\ humidity_min' <= humidity /\ humidity <= humidity_max']_vars

\* C9 witness: a second or later sample above the configured upper limit has
\* been accepted and has raised temperature_max to its value.
C9_Witness ==
    /\ pc = "temp_min"
    /\ samples > 1
    /\ limits.TEMP_LIMIT_MAX # NULL
    /\ temperature > limits.TEMP_LIMIT_MAX
    /\ temp_exceeded_dir = 1
    /\ temperature_max = temperature
    /\ temperature_min < temperature

\* C10: when the first sample has been processed, both bounds of each
\* attribute are that sample's values.
C10_FirstSampleSetsBounds ==
    (pc = "read" /\ samples = 1) =>
        /\ temperature_max = temperature
        /\ temperature_min = temperature
        /\ humidity_max = humidity
        /\ humidity_min = humidity

\* C11: a tick entered at step 4 writes the humidity-history pane with
\* humidity_max shown as Max and humidity_min shown as Min, as they are at
\* tick entry (stated for the ticks entered between two foreground iterations,
\* when no sample is half processed).
C11_HumidityHistory ==
    [][(TickEntry /\ display_step = 4 /\ pc = "read") =>
          /\ lcd'.pane = "HumHistory"
          /\ lcd'.v1 = humidity_max
          /\ lcd'.v2 = humidity_min]_vars

\* A pair of limits of the build has both bounds configured and its minimum
\* above its maximum.
MinAboveMax ==
    \/ /\ limits.TEMP_LIMIT_MIN # NULL
       /\ limits.TEMP_LIMIT_MAX # NULL
       /\ limits.TEMP_LIMIT_MIN > limits.TEMP_LIMIT_MAX
    \/ /\ limits.HUM_LIMIT_MIN # NULL
       /\ limits.HUM_LIMIT_MAX # NULL
       /\ limits.HUM_LIMIT_MIN > limits.HUM_LIMIT_MAX

Halting == {"config_pane", "config_animation", "halt"}

\* Nothing has been read from the sensor and the validator's memory, the
\* directions and the extremes are as the program starts with them.
Untouched ==
    /\ samples = 0
    /\ pc \in {"setup", "config"} \cup Halting
    /\ temperature_previous = 0 /\ humidity_previous = 0 /\ test_frequency = 0
    /\ temp_exceeded_dir = 0 /\ hum_exceeded_dir = 0
    /\ temperature_max = 0 /\ temperature_min = 99
    /\ humidity_max = 0 /\ humidity_min = 99

\* C12: in a build with a configured minimum above its maximum, main writes the
\* configuration-error pane and halts; from startup on the sensor is never
\* read and the validator, the directions and the extremes are never updated.
C12_ConfigHalt ==
    [][MinAboveMax =>
          /\ Untouched
          /\ Untouched'
          /\ (pc = "config" /\ pc' # pc) => pc' = "config_pane"
          /\ (pc = "config_pane" /\ pc' # pc) => lcd'.pane = "ConfigError"
          /\ pc = "halt" => pc' = "halt"]_vars

\* C12 witness: the build with temperature limits min 30, max 20 has written
\* the configuration-error pane and halted, with no sample read.
C12_Witness ==
    /\ limits.TEMP_LIMIT_MIN = 30
    /\ limits.TEMP_LIMIT_MAX = 20
    /\ pc = "halt"
    /\ lcd.pane = "ConfigError"
    /\ samples = 0

\* C13: in a build with a configured minimum above its maximum, once main has
\* written the configuration-error pane no step replaces it: the display keeps
\* showing the configuration-error pane.
C13_ConfigPaneStays ==
    [][(MinAboveMax /\ pc \in {"config_animation", "halt"}
          /\ lcd.pane = "ConfigError") =>
          lcd'.pane = "ConfigError"]_vars

\* C14: main enters the configuration-error branch only for a pair of limits
\* with both bounds configured and the minimum above the maximum; with one
\* bound of a pair left NULL it runs the loop.
C14_UnsetBoundNotFatal ==
    pc \in Halting => MinAboveMax

\* A step of main in a loop iteration whose sensor read failed: the failing
\* read itself, the input-error pane, the store to current_animation.
FailedReadStep ==
    /\ isrpc = "idle" /\ isrpc' = "idle"
    /\ \/ pc = "read" /\ pc' = "error_pane"
       \/ pc = "error_pane" /\ pc' = "error_animation"
       \/ pc = "error_animation" /\ pc' = "read"

\* C15 as stated: a loop iteration whose read failed leaves the validator's
\* memory, both directions, the animation selector and the four extremes as
\* they were.
C15_FailedReadInert ==
    [][FailedReadStep =>
          UNCHANGED << validatorVars, dirVars, current_animation, extremeVars >>]_vars

\* C15 as amended: a loop iteration whose read failed leaves the validator's
\* memory, both directions and the four extremes as they were; its last
\* statement sets the animation selector to 1 (warning), and no other step of
\* it touches the selector.
C15_FailedReadKeepsData ==
    [][FailedReadStep =>
          /\ UNCHANGED << validatorVars, dirVars, extremeVars >>
          /\ pc = "error_animation" => current_animation' = 1
          /\ pc # "error_animation" => UNCHANGED current_animation]_vars

\* C15 witness: after a sample with both directions nominal (selector 0) a
\* read has failed: the directions are still nominal, the extremes still those
\* of the sample, and the selector is warning.
C15_Witness ==
    /\ pc = "read"
    /\ samples = 1
    /\ test_frequency = 1
    /\ temp_exceeded_dir = 0 /\ hum_exceeded_dir = 0
    /\ temperature_max = 25 /\ temperature_min = 25
    /\ current_animation = 1
    /\ limits.TEMP_LIMIT_MAX = 30

\* C16: a tick that fires after main has written the input-error pane, before
\* the failed iteration has even ended, leaves the input-error pane on the
\* display.
C16_InputErrorStays ==
    [][(TickEntry /\ pc = "error_animation" /\ lcd.pane = "InputError") =>
          lcd'.pane = "InputError"]_vars

\* C17: the handler never observes a half-written evaluation; in particular,
\* at tick entry a direction that is not nominal never comes with the
\* selector 0 (check).
C17_ConsistentEvaluation ==
    [][TickEntry =>
          ~ /\ (temp_exceeded_dir # 0 \/ hum_exceeded_dir # 0)
            /\ current_animation = 0]_vars

\* C18: the selector is always 0 (check) or 1 (warning), and the heart bitmap
\* is never played.
C18_NoHeart ==
    /\ current_animation \in {0, 1}
    /\ matrix # "LEDMATRIX_HEART"

\* C18 witness: a tick is playing the check mark for a selector of 0.
C18_Witness ==
    /\ isrpc = "animation_done"
    /\ current_animation = 0
    /\ matrix = "LEDMATRIX_CHECK"

\* C19: the flag last_animation_done is 1 at every tick entry and whenever
\* main runs (it is 0 only between the start and the end of the animation in
\* the handler), so the guard of line 147 always passes: every handler run
\* goes pane, step advance, animation, end, in that order, and starts its one
\* animation cycle when the step has already been advanced.
C19_BusyFlag ==
    [][/\ isrpc # "animation_done" => last_animation_done = 1
       /\ isrpc' # "animation_done" => last_animation_done' = 1
       /\ TickEntry => last_animation_done = 1
       /\ pc' # pc => last_animation_done = 1
       /\ isrpc' # isrpc =>
             << isrpc, isrpc' >> \in
                 { << "idle", "increment" >>, << "increment", "wrap" >>,
                   << "wrap", "animation" >>, << "animation", "animation_done" >>,
                   << "animation_done", "idle" >> }
       /\ (isrpc = "animation" /\ isrpc' = "animation_done") =>
             /\ last_animation_done' = 0
             /\ display_step = ticks % 5
             /\ matrix' = IF current_animation = 0 THEN "LEDMATRIX_CHECK"
                          ELSE "LEDMATRIX_WARNING"
       /\ last_animation_done' # last_animation_done =>
             "animation_done" \in {isrpc, isrpc'}]_vars

\* C19 witness: a tick entered at step 0 has written the temperature alarm
\* pane with its tone, advanced the step to 1 and is now in its animation.
C19_Witness ==
    /\ isrpc = "animation_done"
    /\ last_animation_done = 0
    /\ lcd.pane = "TempAlarm"
    /\ tone = TONE_MS
    /\ display_step = 1
    /\ ticks > 5

AcceptedProcessing ==
    {"temp_dir", "temp_animation", "hum_dir", "hum_animation"} \cup AfterDirections

\* C20: a later sample that is more than 5 away from the baseline in
\* temperature or in humidity is rejected and leaves the baseline, the
\* directions, the extremes and the selector as they were, so the next sample
\* is judged against the same baseline; and the directions, the extremes and
\* the selector change only while an accepted sample is processed or on an
\* error path.  Hence while every read is out of range of the baseline nothing
\* is accepted again and, apart from sensor errors, nothing of these changes.
C20_PermanentRejection ==
    [][/\ (ValidatorCall /\ samples > 1
             /\ (\/ Abs(temperature - temperature_previous) > 5
                 \/ Abs(humidity - humidity_previous) > 5)) =>
             /\ Rejected
             /\ UNCHANGED << validatorVars, dirVars, extremeVars, current_animation >>
       /\ << dirVars, extremeVars >>' # << dirVars, extremeVars >> =>
             (pc \in AcceptedProcessing /\ pc' # pc)
       /\ current_animation' # current_animation =>
             (pc \in AcceptedProcessing \cup {"error_animation"} /\ pc' # pc)]_vars

\* C20 witness: three samples were read; the extremes are those of the one
\* accepted baseline, the second sample (still shown on the current-values
\* pane) and the third are both out of range of it.
C20_Witness ==
    /\ pc = "read"
    /\ samples = 3
    /\ temperature_max = temperature_previous
    /\ temperature_min = temperature_previous
    /\ lcd.pane = "Current"
    /\ lcd.v1 \in TempReadings
    /\ lcd.v1 # temperature
    /\ Abs(lcd.v1 - temperature_previous) > 5
    /\ Abs(temperature - temperature_previous) > 5

====
